---------------------------- MODULE Spec2Model ----------------------------
(***************************************************************************)
(* Model of the image downsampler batch job (src/app.py).                  *)
(*                                                                         *)
(* Two specifications are given over the same program definitions:         *)
(*   Spec        the batch run: init_logger + process_images over a        *)
(*               source directory, possibly run again on the same          *)
(*               directory;                                                *)
(*   SpecResize  resize_image applied to one image drawn from a wide set   *)
(*               of pixel sizes and embedded resolutions.                  *)
(*                                                                         *)
(* Python computes the scale factors in binary floating point and          *)
(* truncates with int().  A product a * (num / den) whose exact value is   *)
(* an integer n, with num / den not representable, evaluates to n or to    *)
(* the double just below n, so int() yields n or n - 1 (49 * (1 / 49) is   *)
(* 0.9999999999999999).  The variable fp chooses, per multiplication       *)
(* site, which of the two the platform produces; every other product is    *)
(* further from an integer than the rounding error and truncates to the    *)
(* exact floor.  The embedded resolution is taken to be integral.          *)
(***************************************************************************)
EXTENDS Integers, Sequences, FiniteSets, TLC

\* ---------------------------------------------------------------- constants
MAX_PIXEL_LENGTH == 10000
MIN_PIXEL_LENGTH == 600
DPIS == <<72, 300, 600, 1200>>
MAX_TOTAL_BYTES == 10485760
JPEG_QUALITY == 98
DEFAULT_DPI == 300

ENABLE_CHECK_MIN_MAX_LENGTH == TRUE
ENABLE_JPEG_QUALITY == TRUE

SUPPORTED_FORMATS == {"image/jpeg", "image/png", "image/tiff", "image/bmp"}

\* Python's None (an absent value); also the value of image.info.get('dpi')
\* when the image carries no resolution metadata.
None == <<>>

\* ------------------------------------------------------------------- bounds
MaxFiles == 2      \* entries in the source directory
MaxRuns == 2       \* consecutive runs of the batch on the same directory
MaxEdgeK == 14     \* largest pixel edge drawn for SpecResize, in thousands

DpiSet == {DPIS[k] : k \in DOMAIN DPIS}

\* Outcomes of the four floating-point multiplications of resize_image.
FpModes == [1..4 -> BOOLEAN]

\* ------------------------------------------------------------------ inputs
\* Embedded resolution metadata: absent, or an (x, y) pair.
DpiInfos == {None, <<72, 72>>, <<96, 72>>, <<300, 300>>, <<1200, 1200>>}

Edges == {1, 4, 5, 49, 700, 2501} \cup {1000 * k : k \in 1..MaxEdgeK}

\* A directory entry: its extension, whether Pillow can decode it, its pixel
\* size and embedded resolution, the byte length of its in-memory encoding
\* (None when the trial encoding raises), and the target resolutions whose
\* directory creation or file write fails.
File(ext, decodable, size, dpi, memBytes, saveFailsAt) ==
    [ext |-> ext, decodable |-> decodable, size |-> size, dpi |-> dpi,
     memBytes |-> memBytes, saveFailsAt |-> saveFailsAt]

BatchFiles ==
    { File(".txt", FALSE, <<1, 1>>, None, None, {}),
      File("", FALSE, <<1, 1>>, None, None, {}),
      File(".jpg", FALSE, <<1, 1>>, None, None, {}),
      File(".jpg", TRUE, <<4000, 3000>>, <<300, 300>>, <<MAX_TOTAL_BYTES + 1>>, {}),
      File(".png", TRUE, <<4, 4>>, <<300, 300>>, <<MAX_TOTAL_BYTES>>, {}),
      File(".tif", TRUE, <<4000, 1000>>, None, <<1>>, {}),
      File(".tiff", TRUE, <<12000, 9000>>, <<1200, 1200>>, None, {72}) }

ProbeFiles ==
    { File(".png", TRUE, <<w, h>>, i, <<1>>, {}) :
        w \in Edges, h \in Edges, i \in DpiInfos }

Listings == UNION { [1..n -> BatchFiles] : n \in 0..MaxFiles }

\* ------------------------------------------------------------------- state
VARIABLES
    listing,                 \* os.listdir(SOURCE_DIR), in listing order
    dirReadable,             \* whether os.listdir(SOURCE_DIR) succeeds
    ENABLE_CHECK_MAX_BYTES,  \* feature flag, fixed for the run
    fp,                      \* floating-point outcomes, fixed for the platform
    pc,                      \* position in __main__ / process_images
    run,                     \* number of runs started
    fi,                      \* index of the current directory entry
    di,                      \* index of the current target resolution
    opens,                   \* Image.open calls per entry in this run
    log,                     \* records written to LOG_FILE in this run
    outputs,                 \* output path -> written file
    probe,                   \* SpecResize: the image handed to resize_image
    result                   \* SpecResize: what resize_image returned

vars == <<listing, dirReadable, ENABLE_CHECK_MAX_BYTES, fp, pc, run, fi, di,
          opens, log, outputs, probe, result>>


\* ------------------------------------------------------- helper arithmetic
Max2(a, b) == IF a >= b THEN a ELSE b

Min2(a, b) == IF a <= b THEN a ELSE b

RECURSIVE Gcd(_, _)
Gcd(a, b) == IF b = 0 THEN a ELSE Gcd(b, a % b)

RECURSIVE IsPowerOfTwo(_)
IsPowerOfTwo(n) == IF n = 1 THEN TRUE
                   ELSE IF n % 2 = 1 THEN FALSE
                   ELSE IsPowerOfTwo(n \div 2)

\* num / den is a double exactly (a dyadic rational of this magnitude).
Representable(num, den) == IsPowerOfTwo(den \div Gcd(num, den))

\* int(a * (num / den)) in double arithmetic.  low: the platform rounds an
\* exactly integral product with an inexact factor to the double below it.
IntMul(a, num, den, low) ==
    LET p == a * num IN
    IF p # 0 /\ p % den = 0 /\ low /\ ~Representable(num, den)
    THEN (p \div den) - 1
    ELSE p \div den

\* --------------------------------------------------------- get_original_dpi
\* max(image.info.get('dpi')): the larger embedded value, or a TypeError
\* when the image has no 'dpi' entry and get() returns None.
get_original_dpi(image) ==
    IF image.dpi = None
    THEN [raised |-> TRUE, value |-> 0]
    ELSE [raised |-> FALSE, value |-> Max2(image.dpi[1], image.dpi[2])]

\* ------------------------------------------------------------- resize_image
\* Lines 68-75: scale the longest edge by dpi / original_dpi and derive the
\* other edge from the new longest edge and the original ratio.
ScaleByDpi(size, dpi, original_dpi, f) ==
    LET original_width == size[1]
        original_height == size[2]
    IN IF original_width > original_height
       THEN LET new_width == IntMul(original_width, dpi, original_dpi, f[1])
            IN <<new_width, IntMul(new_width, original_height, original_width, f[2])>>
       ELSE LET new_height == IntMul(original_height, dpi, original_dpi, f[1])
            IN <<IntMul(new_height, original_width, original_height, f[2]), new_height>>

\* Variant of ClampLength that omits the scale-down to MAX_PIXEL_LENGTH.
ClampLengthNoMax(size, f) ==
    IF Max2(size[1], size[2]) = 0 THEN [raised |-> TRUE, size |-> size]
    ELSE [raised |-> FALSE,
          size |-> <<Max2(size[1], MIN_PIXEL_LENGTH), Max2(size[2], MIN_PIXEL_LENGTH)>>]

\* Lines 77-81: scale_factor = min(MAX_PIXEL_LENGTH / max(w, h), 1), then each
\* edge is max(int(edge * scale_factor), MIN_PIXEL_LENGTH).  The division
\* raises ZeroDivisionError when both scaled edges truncated to 0.
ClampLength(size, f) ==
    LET longest == Max2(size[1], size[2]) IN
    IF ~ENABLE_CHECK_MIN_MAX_LENGTH THEN [raised |-> FALSE, size |-> size]
    ELSE IF longest = 0 THEN [raised |-> TRUE, size |-> size]
    ELSE LET w == IF longest <= MAX_PIXEL_LENGTH THEN size[1]
                  ELSE IntMul(size[1], MAX_PIXEL_LENGTH, longest, f[3])
             h == IF longest <= MAX_PIXEL_LENGTH THEN size[2]
                  ELSE IntMul(size[2], MAX_PIXEL_LENGTH, longest, f[4])
         IN [raised |-> FALSE,
             size |-> <<Max2(w, MIN_PIXEL_LENGTH), Max2(h, MIN_PIXEL_LENGTH)>>]

\* Variant of ExceedsSource that never skips a target resolution.
ExceedsSourceNever(dpi, original_dpi) == FALSE

\* Line 64: the target resolution exceeds the source resolution.
ExceedsSource(dpi, original_dpi) == dpi > original_dpi

\* resize_image(image_path, dpi): the resized image (its pixel size), or None
\* with the record it logs.  msg is the log message of the path taken.
resize_image(image, dpi, f) ==
    IF ~image.decodable
    THEN [ret |-> None, msg |-> "Failed to open image"]
    ELSE LET original_dpi == get_original_dpi(image) IN
         IF original_dpi.raised
         THEN [ret |-> None, msg |-> "Unexpected error resizing image"]
         ELSE IF ExceedsSource(dpi, original_dpi.value)
         THEN [ret |-> None, msg |-> "Skipping image"]
         ELSE LET clamped == ClampLength(
                      ScaleByDpi(image.size, dpi, original_dpi.value, f), f)
              IN IF clamped.raised
                 THEN [ret |-> None, msg |-> "Unexpected error resizing image"]
                 ELSE [ret |-> clamped.size, msg |-> ""]

\* ------------------------------------------------------------ file names
\* mimetypes.guess_type(file_path)[0]: the type guessed from the extension,
\* <<type>>, or None when the extension tells nothing.
guess_type(ext) ==
    CASE ext \in {".jpg", ".jpeg"} -> <<"image/jpeg">>
      [] ext = ".png" -> <<"image/png">>
      [] ext \in {".tif", ".tiff"} -> <<"image/tiff">>
      [] ext = ".bmp" -> <<"image/bmp">>
      [] ext = ".txt" -> <<"text/plain">>
      [] OTHER -> None

\* Variant of IsSupported that lets entries of unknown type through.
IsSupportedOrUnknown(mime_type) ==
    mime_type = None \/ mime_type[1] \in SUPPORTED_FORMATS

\* Line 146, negated: mime_type in SUPPORTED_FORMATS.
IsSupported(mime_type) ==
    mime_type # None /\ mime_type[1] \in SUPPORTED_FORMATS

\* The i-th entry of the listing; entries of one directory differ in name.
FileName(i) == [stem |-> i, ext |-> listing[i].ext]

\* split_file_name(file_path) = (file_name, file_ext).
split_file_name(file_path) == <<file_path.stem, file_path.ext>>

\* ------------------------------------------------------ save_resized_image
\* Variant of new_file_path that numbers the file name by the run.
new_file_path_per_run(original_file_path, dpi) ==
    [target_dir |-> dpi, file_name |-> original_file_path.stem,
     suffix |-> dpi + run, file_ext |-> original_file_path.ext]

\* Lines 96-102: <SOURCE_DIR>_images_<dpi>dpi/<file_name>_<dpi>dpi<file_ext>.
new_file_path(original_file_path, dpi) ==
    LET parts == split_file_name(original_file_path) IN
    [target_dir |-> dpi, file_name |-> parts[1], suffix |-> dpi,
     file_ext |-> parts[2]]

\* Lines 104-106: the parameters handed to Image.save.
save_params(original_file_path, dpi) ==
    LET file_ext == split_file_name(original_file_path)[2] IN
    [dpi |-> <<dpi, dpi>>,
     quality |-> IF ENABLE_JPEG_QUALITY /\ file_ext \in {".jpg", ".jpeg"}
                 THEN <<JPEG_QUALITY>> ELSE None]

LogRecord(level, msg, file, dpi) ==
    [level |-> level, msg |-> msg, file |-> file, dpi |-> dpi]

\* save_resized_image: the file system after the call and the record logged.
\* A write to an existing path replaces the file there.
save_resized_image(out, resized_img, image, original_file_path, dpi) ==
    LET path == new_file_path(original_file_path, dpi)
        params == save_params(original_file_path, dpi)
        written == [size |-> resized_img, dpi |-> params.dpi,
                    quality |-> params.quality]
    IN IF dpi \in image.saveFailsAt
       THEN [outputs |-> out,
             log |-> LogRecord("ERROR", "Failed to save image",
                               original_file_path.stem, dpi)]
       ELSE [outputs |-> [q \in DOMAIN out \cup {path} |->
                             IF q = path THEN written ELSE out[q]],
             log |-> LogRecord("INFO", "Image saved",
                               original_file_path.stem, dpi)]

\* --------------------------------------------- check_image_size_in_memory
\* The byte length of the in-memory encoding, <<n>>, or None when the trial
\* encoding raises (the error is logged by the function itself).
check_image_size_in_memory(image) == image.memBytes

\* Variant of CheckMaxBytes that makes the byte budget a hard gate.
CheckMaxBytesGate(image, file, dpi) ==
    LET img_size == image.memBytes IN
    IF ~ENABLE_CHECK_MAX_BYTES THEN [log |-> <<>>, save |-> TRUE]
    ELSE IF img_size = None
    THEN [log |-> <<[level |-> "ERROR", msg |-> "Error checking image size in memory",
                     file |-> file, dpi |-> dpi]>>,
          save |-> TRUE]
    ELSE IF img_size[1] > MAX_TOTAL_BYTES
    THEN [log |-> <<[level |-> "WARNING", msg |-> "exceeds max size",
                     file |-> file, dpi |-> dpi]>>,
          save |-> FALSE]
    ELSE [log |-> <<>>, save |-> TRUE]

\* Lines 157-162: what the byte-budget check adds to the log, and whether
\* save_resized_image is called next (it is, whatever the check found).
CheckMaxBytes(image, file, dpi) ==
    IF ~ENABLE_CHECK_MAX_BYTES THEN [log |-> <<>>, save |-> TRUE]
    ELSE LET img_size == check_image_size_in_memory(image) IN
         IF img_size = None
         THEN [log |-> <<LogRecord("ERROR", "Error checking image size in memory",
                                   file, dpi)>>,
               save |-> TRUE]
         ELSE IF img_size[1] > MAX_TOTAL_BYTES
         THEN [log |-> <<LogRecord("WARNING", "exceeds max size", file, dpi)>>,
               save |-> TRUE]
         ELSE [log |-> <<>>, save |-> TRUE]

\* ------------------------------------------------------------ process_images
\* Variant of LoopControl that ends the run when resize_image returns None.
LoopControlAbort(resized_img) ==
    IF resized_img = None
    THEN /\ pc' = "done"
         /\ UNCHANGED <<fi, di>>
    ELSE IF di < Len(DPIS)
    THEN /\ di' = di + 1
         /\ UNCHANGED <<pc, fi>>
    ELSE /\ di' = 1
         /\ fi' = fi + 1
         /\ pc' = "files"

\* Variant of LoopControl that leaves the resolution loop of the current
\* entry when resize_image returns None.
LoopControlBreak(resized_img) ==
    IF resized_img # None /\ di < Len(DPIS)
    THEN /\ di' = di + 1
         /\ UNCHANGED <<pc, fi>>
    ELSE /\ di' = 1
         /\ fi' = fi + 1
         /\ pc' = "files"

\* Lines 152-155 and the end of the loop bodies: after an iteration, whatever
\* resize_image returned, the next resolution, or the next entry.
LoopControl(resized_img) ==
    IF di < Len(DPIS)
    THEN /\ di' = di + 1
         /\ UNCHANGED <<pc, fi>>
    ELSE /\ di' = 1
         /\ fi' = fi + 1
         /\ pc' = "files"

\* __main__: init_logger() removes the previous log, then process_images()
\* lists the source directory; a failure of os.listdir is not caught.
StartRun ==
    /\ pc \in {"idle", "done", "aborted"}
    /\ run < MaxRuns
    /\ run' = run + 1
    /\ log' = <<>>
    /\ opens' = [i \in DOMAIN listing |-> 0]
    /\ fi' = 1
    /\ di' = 1
    /\ pc' = IF dirReadable THEN "files" ELSE "aborted"
    /\ UNCHANGED <<listing, dirReadable, ENABLE_CHECK_MAX_BYTES, fp, outputs,
                   probe, result>>

\* Lines 142-148: an entry whose guessed type is not supported.
SkipFile ==
    /\ pc = "files"
    /\ fi <= Len(listing)
    /\ ~IsSupported(guess_type(listing[fi].ext))
    /\ log' = Append(log, LogRecord("INFO", "Skipped non-image file", fi, 0))
    /\ fi' = fi + 1
    /\ UNCHANGED <<listing, dirReadable, ENABLE_CHECK_MAX_BYTES, fp, pc, run,
                   di, opens, outputs, probe, result>>

\* Lines 142-150: an entry of a supported type enters the resolution loop.
BeginFile ==
    /\ pc = "files"
    /\ fi <= Len(listing)
    /\ IsSupported(guess_type(listing[fi].ext))
    /\ log' = Append(log, LogRecord("INFO", "Processing image", fi, 0))
    /\ di' = 1
    /\ pc' = "dpis"
    /\ UNCHANGED <<listing, dirReadable, ENABLE_CHECK_MAX_BYTES, fp, run, fi,
                   opens, outputs, probe, result>>

\* Lines 152-162: one iteration of the resolution loop for the current entry.
ProcessDpi ==
    /\ pc = "dpis"
    /\ LET image == listing[fi]
           file_path == FileName(fi)
           dpi == DPIS[di]
           resized == resize_image(image, dpi, fp)
       IN /\ opens' = [opens EXCEPT ![fi] = @ + 1]
          /\ IF resized.ret = None
             THEN /\ log' = Append(log, LogRecord(
                               IF resized.msg = "Skipping image" THEN "INFO" ELSE "ERROR",
                               resized.msg, fi, dpi))
                  /\ UNCHANGED outputs
             ELSE LET checked == CheckMaxBytes(image, fi, dpi)
                      saved == save_resized_image(outputs, resized.ret, image,
                                                  file_path, dpi)
                  IN IF checked.save
                     THEN /\ log' = Append(log \o checked.log, saved.log)
                          /\ outputs' = saved.outputs
                     ELSE /\ log' = log \o checked.log
                          /\ UNCHANGED outputs
          /\ LoopControl(resized.ret)
    /\ UNCHANGED <<listing, dirReadable, ENABLE_CHECK_MAX_BYTES, fp, run,
                   probe, result>>

\* Line 142: the listing is exhausted; process_images returns.
Finish ==
    /\ pc = "files"
    /\ fi > Len(listing)
    /\ pc' = "done"
    /\ UNCHANGED <<listing, dirReadable, ENABLE_CHECK_MAX_BYTES, fp, run, fi,
                   di, opens, log, outputs, probe, result>>

NoProbe == File("", FALSE, <<1, 1>>, None, None, {})

NoResult == [dpi |-> 0, ret |-> None, msg |-> ""]

Init ==
    /\ listing \in Listings
    /\ dirReadable \in BOOLEAN
    /\ ENABLE_CHECK_MAX_BYTES \in BOOLEAN
    /\ fp \in FpModes
    /\ pc = "idle"
    /\ run = 0
    /\ fi = 1
    /\ di = 1
    /\ opens = [i \in DOMAIN listing |-> 0]
    /\ log = <<>>
    /\ outputs = <<>>
    /\ probe = NoProbe
    /\ result = NoResult

Next == StartRun \/ SkipFile \/ BeginFile \/ ProcessDpi \/ Finish

Spec == Init /\ [][Next]_vars

\* ----------------------------------------------------------- SpecResize
\* resize_image(image_path, dpi) called once on the probe image.
ResizeCall(dpi) ==
    /\ pc = "probe"
    /\ LET resized == resize_image(probe, dpi, fp)
       IN result' = [dpi |-> dpi, ret |-> resized.ret, msg |-> resized.msg]
    /\ pc' = "probed"
    /\ UNCHANGED <<listing, dirReadable, ENABLE_CHECK_MAX_BYTES, fp, run, fi,
                   di, opens, log, outputs, probe>>

InitResize ==
    /\ probe \in ProbeFiles
    /\ fp \in FpModes
    /\ result = NoResult
    /\ pc = "probe"
    /\ listing = <<>>
    /\ dirReadable = TRUE
    /\ ENABLE_CHECK_MAX_BYTES = TRUE
    /\ run = 0
    /\ fi = 1
    /\ di = 1
    /\ opens = <<>>
    /\ log = <<>>
    /\ outputs = <<>>

NextResize == \E dpi \in DpiSet : ResizeCall(dpi)

SpecResize == InitResize /\ [][NextResize]_vars

TypeOK ==
    /\ pc \in {"idle", "files", "dpis", "done", "aborted", "probe", "probed"}
    /\ run \in 0..MaxRuns
    /\ fi \in 1..(Len(listing) + 1)
    /\ di \in 1..Len(DPIS)

\* =================================================================== claims
\* The entry's guessed media type is one of the four the batch accepts.
Supported(i) ==
    LET mime_type == guess_type(listing[i].ext) IN
    /\ mime_type # None
    /\ mime_type[1] \in {"image/jpeg", "image/png", "image/tiff", "image/bmp"}

\* The source resolution the specification attributes to an image: the
\* embedded one, or DEFAULT_DPI when there is none.
EffectiveDpi(image) ==
    IF image.dpi = None THEN DEFAULT_DPI ELSE Max2(image.dpi[1], image.dpi[2])

OutputPath(i, dpi) == new_file_path(FileName(i), dpi)

HasRecord(msg, i, dpi) ==
    \E k \in DOMAIN log : log[k].msg = msg /\ log[k].file = i /\ log[k].dpi = dpi

CountRecords(msg, i) ==
    Cardinality({k \in DOMAIN log : log[k].msg = msg /\ log[k].file = i})

SaveCalled(i, dpi) ==
    HasRecord("Image saved", i, dpi) \/ HasRecord("Failed to save image", i, dpi)

Longest(size) == Max2(size[1], size[2])

Shortest(size) == Min2(size[1], size[2])

\* C1: with clamping enabled, every output resize_image produces has its
\* longest edge within [MIN_PIXEL_LENGTH, MAX_PIXEL_LENGTH].
C1_LongestEdgeWithinBounds ==
    (pc = "probed" /\ result.ret # None) =>
        /\ result.dpi <= EffectiveDpi(probe)
        /\ Longest(result.ret) >= MIN_PIXEL_LENGTH
        /\ Longest(result.ret) <= MAX_PIXEL_LENGTH

\* An output whose resolution-scaled longest edge was above the maximum.
C1_Witness ==
    /\ pc = "probed"
    /\ result.ret # None
    /\ Longest(ScaleByDpi(probe.size, result.dpi, EffectiveDpi(probe), fp))
           > MAX_PIXEL_LENGTH
    /\ Longest(result.ret) = MAX_PIXEL_LENGTH

\* C2: every output keeps the input aspect ratio to within one pixel on the
\* short edge: |short' - long' * short / long| <= 1.
C2_AspectRatioKept ==
    (pc = "probed" /\ result.ret # None) =>
        LET d == Shortest(result.ret) * Longest(probe.size)
                 - Longest(result.ret) * Shortest(probe.size)
        IN d <= Longest(probe.size) /\ -d <= Longest(probe.size)

\* C3: an image without resolution metadata is treated as a DEFAULT_DPI
\* source: get_original_dpi yields DEFAULT_DPI, targets up to DEFAULT_DPI
\* produce an output and larger targets are skipped as exceeding the source.
C3_DefaultDpiWhenAbsent ==
    (pc = "probed" /\ probe.dpi = None) =>
        /\ get_original_dpi(probe) = [raised |-> FALSE, value |-> DEFAULT_DPI]
        /\ result.dpi <= DEFAULT_DPI => result.ret # None
        /\ result.dpi > DEFAULT_DPI => result.msg = "Skipping image"

\* C4: at the end of a run every supported, decodable image has an output at
\* <SOURCE_DIR>_images_<d>dpi/<stem>_<d>dpi<ext> for every target d not above
\* its effective source resolution whose save succeeds, and lacks one only
\* for the targets above that resolution.
C4_OneOutputPerPair ==
    pc = "done" =>
        \A i \in DOMAIN listing : \A d \in DpiSet :
            (Supported(i) /\ listing[i].decodable /\ d \notin listing[i].saveFailsAt)
            => (OutputPath(i, d) \in DOMAIN outputs
                    <=> d <= EffectiveDpi(listing[i]))

\* C5: for a target resolution above the image's effective source
\* resolution there is no size check, no save and no output file.
C5_NoOutputAboveSource ==
    \A i \in DOMAIN listing : \A d \in DpiSet :
        (Supported(i) /\ listing[i].decodable /\ d > EffectiveDpi(listing[i]))
        => /\ OutputPath(i, d) \notin DOMAIN outputs
           /\ ~SaveCalled(i, d)
           /\ ~HasRecord("exceeds max size", i, d)
           /\ ~HasRecord("Error checking image size in memory", i, d)

\* A finished run that skipped a target the minimum clamp would have served.
C5_Witness ==
    /\ pc = "done"
    /\ \E i \in DOMAIN listing : \E d \in DpiSet :
          /\ HasRecord("Skipping image", i, d)
          /\ d > EffectiveDpi(listing[i])
          /\ listing[i].dpi # None
          /\ ClampLength(ScaleByDpi(listing[i].size, d, EffectiveDpi(listing[i]), fp),
                         fp).raised = FALSE

\* A record about resolution dpi of entry i: the iteration ran to its end.
Attempted(i, dpi) == \E k \in DOMAIN log : log[k].file = i /\ log[k].dpi = dpi

\* C6: no per-file or per-resolution failure aborts the run: the run halts
\* early only when the listing itself fails, and otherwise ends past the last
\* entry, having attempted every resolution of every supported entry and
\* noticed every other entry.
C6_FailuresDoNotAbort ==
    /\ pc = "aborted" => ~dirReadable
    /\ pc = "done" =>
          /\ dirReadable
          /\ fi = Len(listing) + 1
          /\ \A i \in DOMAIN listing :
                IF Supported(i)
                THEN \A d \in DpiSet : Attempted(i, d)
                ELSE CountRecords("Skipped non-image file", i) = 1

\* A finished run with a failure logged before the last entry's records.
C6_Witness ==
    /\ pc = "done"
    /\ \E k \in DOMAIN log : \E m \in DOMAIN log :
          /\ log[k].level = "ERROR"
          /\ log[k].msg = "Failed to save image"
          /\ log[m].file > log[k].file
          /\ log[m].msg = "Image saved"

\* The pairs the run saves, computed without the byte-budget check.
SavablePairs ==
    {<<i, d>> \in (DOMAIN listing) \X DpiSet :
        /\ Supported(i)
        /\ resize_image(listing[i], d, fp).ret # None
        /\ d \notin listing[i].saveFailsAt}

\* C7: the byte-budget check is observational: a warning is followed by the
\* save call for the same pair, and the pairs saved by a run do not depend on
\* the check or on ENABLE_CHECK_MAX_BYTES.
C7_ByteCheckObservational ==
    /\ \A k \in DOMAIN log :
          log[k].msg = "exceeds max size" =>
              /\ ENABLE_CHECK_MAX_BYTES
              /\ k < Len(log)
              /\ log[k + 1].msg \in {"Image saved", "Failed to save image"}
              /\ log[k + 1].file = log[k].file
              /\ log[k + 1].dpi = log[k].dpi
    /\ pc = "done" =>
          {<<i, d>> \in (DOMAIN listing) \X DpiSet : HasRecord("Image saved", i, d)}
              = SavablePairs

\* A finished run, check enabled, that warned about an oversized encoding.
C7_Witness ==
    /\ pc = "done"
    /\ ENABLE_CHECK_MAX_BYTES
    /\ \E k \in DOMAIN log :
          /\ log[k].msg = "exceeds max size"
          /\ HasRecord("Image saved", log[k].file, log[k].dpi)

\* C8: an entry whose guessed type is unsupported or unknown is never opened,
\* resized or saved, has no output in any target directory, and gets exactly
\* one skip notice per run.
C8_UnsupportedSkipped ==
    \A i \in DOMAIN listing :
        ~Supported(i) =>
            /\ opens[i] = 0
            /\ \A k \in DOMAIN log :
                  log[k].file = i => log[k].msg = "Skipped non-image file"
            /\ \A q \in DOMAIN outputs : q.file_name # i
            /\ CountRecords("Skipped non-image file", i) <= 1
            /\ (pc = "done" \/ (pc \in {"files", "dpis"} /\ fi > i))
                  => CountRecords("Skipped non-image file", i) = 1

\* A finished run over a directory holding an entry of no guessable type
\* next to an image that was saved.
C8_Witness ==
    /\ pc = "done"
    /\ outputs # <<>>
    /\ \E i \in DOMAIN listing :
          /\ guess_type(listing[i].ext) = None
          /\ CountRecords("Skipped non-image file", i) = 1

\* C9: a second run on the unchanged directory leaves every output path and
\* its contents as the first run left them: no step of a later run changes
\* the outputs.
C9_SecondRunIdempotent ==
    [][run' >= 2 => outputs' = outputs]_vars

\* A second run that finished after saving again over the first run's files.
C9_Witness ==
    /\ pc = "done"
    /\ run = 2
    /\ \E k \in DOMAIN log : log[k].msg = "Image saved"

=============================================================================
